---- MODULE Spec2Model ----
(***************************************************************************)
(* GlowMint Muse: the prompt-to-artifact history engine.                   *)
(*                                                                         *)
(* State of App (src/App.tsx) and ImageWorkspace                           *)
(* (src/components/ImageWorkspace.tsx), the handlers that change it, and   *)
(* the collaborator calls of src/services/geminiService.ts that are in     *)
(* flight.  Texts are sequences of tokens (a token is a run of characters; *)
(* " " is whitespace), an optional value (T | null) is a sequence of       *)
(* length at most one.                                                     *)
(***************************************************************************)
EXTENDS Integers, Sequences, FiniteSets

VARIABLES
    prompt,           \* App: useState<string>('')
    generatedImages,  \* App: useState<GeneratedImage[]>([]), newest first
    hasApiKey,        \* App: useState(false)
    checkingKey,      \* App: useState(true)
    config,           \* ImageWorkspace: GenerationConfig
    isGenerating,     \* ImageWorkspace: the Busy flag
    selectedImage,    \* ImageWorkspace: GeneratedImage | null
    editMode,         \* ImageWorkspace
    editPrompt,       \* ImageWorkspace
    analysis,         \* ImageWorkspace: string | null
    inflight,         \* collaborator calls awaited by a handler, in dispatch order
    now,              \* the millisecond clock read by Date.now()
    appendLog,        \* history: every artifact handed to setGeneratedImages, oldest first
    alerted           \* the message of the open window.alert dialog, Null when none is open

appVars  == <<prompt, generatedImages, hasApiKey, checkingKey>>
wsVars   == <<config, isGenerating, selectedImage, editMode, editPrompt, analysis>>
envVars  == <<inflight, now>>
vars     == <<prompt, generatedImages, hasApiKey, checkingKey, config, isGenerating,
              selectedImage, editMode, editPrompt, analysis, inflight, now, appendLog, alerted>>

----------------------------------------------------------------------------
(* Bounds of the exploration *)

MaxImports == 2
MaxCreations == 1
MaxClock == 1
MaxInflight == 2
DirectImports == 1
MaxArtifacts == 3

----------------------------------------------------------------------------
(* src/types.ts *)

Square    == "1:1"
Portrait  == "3:4"
Landscape == "4:3"
Wide      == "16:9"
Tall      == "9:16"

AspectRatio == {Square, Portrait, Landscape, Wide, Tall}

Flash == "gemini-2.5-flash-image"
Pro   == "gemini-3-pro-image-preview"

GenerationModel == {Flash, Pro}

Null == <<>>

Some(x) == <<x>>

Get(opt) == opt[1]

----------------------------------------------------------------------------
(* Text helpers *)

IsSpace(tok) == tok = " "

RECURSIVE TrimStart(_)
TrimStart(t) ==
    IF t = <<>> THEN <<>>
    ELSE IF IsSpace(Head(t)) THEN TrimStart(Tail(t)) ELSE t

RECURSIVE TrimEnd(_)
TrimEnd(t) ==
    IF t = <<>> THEN <<>>
    ELSE IF IsSpace(t[Len(t)]) THEN TrimEnd(SubSeq(t, 1, Len(t) - 1)) ELSE t

\* A faulty trim: the text as it is
NoTrim(t) == t

\* String.prototype.trim
Trim(t) == TrimEnd(TrimStart(t))

\* Number.prototype.toString (decimal digits, most significant first)
RECURSIVE NumberToString(_)
NumberToString(n) ==
    IF n < 10 THEN <<n>> ELSE NumberToString(n \div 10) \o <<n % 10>>

\* Date.now().toString()
DateNowToString == NumberToString(now)

----------------------------------------------------------------------------
(* src/services/geminiService.ts: what each capability sends and returns *)

\* generateImage: the negative prompt is folded into the prompt text
FullPrompt(p, negativePrompt) ==
    IF negativePrompt # <<>>
    THEN p \o <<"\n\n(Negative Prompt: ">> \o negativePrompt \o <<")">>
    ELSE p

\* generateImage: imageSize is "2K" for the Pro model only
ImageSize(model) == IF model = Pro THEN Some("2K") ELSE Null

AnalysisEmptyFallback == "Could not analyze image."

AnalysisErrorFallback == "Error analyzing image."

\* A faulty analyzeImage: no catch, a provider error is treated as a response
AnalyzeImageResultNoCatch(outcome) ==
    IF outcome.text = "" THEN AnalysisEmptyFallback ELSE outcome.text

\* analyzeImage: response.text || fallback; a provider error yields the error fallback
AnalyzeImageResult(outcome) ==
    IF outcome.kind = "throws" THEN AnalysisErrorFallback
    ELSE IF outcome.text = "" THEN AnalysisEmptyFallback
    ELSE outcome.text

----------------------------------------------------------------------------
(* Initial state: App and ImageWorkspace as constructed by useState *)

Init ==
    /\ prompt = <<>>
    /\ generatedImages = <<>>
    /\ hasApiKey = FALSE
    /\ checkingKey = TRUE
    /\ config = [aspectRatio |-> Square, model |-> Flash, negativePrompt |-> <<>>]
    /\ isGenerating = FALSE
    /\ selectedImage = Null
    /\ editMode = FALSE
    /\ editPrompt = <<>>
    /\ analysis = Null
    /\ inflight = <<>>
    /\ now = 0
    /\ appendLog = <<>>
    /\ alerted = Null

----------------------------------------------------------------------------
(* src/App.tsx *)

\* checkKey (mount effect).  outcome: "absent" (no window.aistudio),
\* "true" / "false" (hasSelectedApiKey resolved), "throws"
CheckKey(outcome) ==
    /\ checkingKey
    /\ hasApiKey' = IF outcome = "false" THEN FALSE ELSE TRUE
    /\ checkingKey' = FALSE
    /\ UNCHANGED <<prompt, generatedImages, wsVars, envVars, appendLog, alerted>>

\* The blocking overlay is rendered, and with it the Connect button
OverlayVisible == ~checkingKey /\ ~hasApiKey

\* ChatInterface and ImageWorkspace are rendered
WorkspaceVisible == ~checkingKey /\ hasApiKey

\* window.alert is modal: the handler that opens the dialog resumes when the
\* user closes it and nothing else of the page runs meanwhile, so the handler
\* is one step and alerted holds the dialog it left open
ConnectFailedNotice == "Failed to open key selector. Please try again."

DismissAlert ==
    /\ alerted # Null
    /\ alerted' = Null
    /\ UNCHANGED <<appVars, wsVars, envVars, appendLog>>

\* handleConnectApiKey.  outcome: "absent", "closed" (openSelectKey resolved), "throws"
HandleConnectApiKey(outcome) ==
    /\ OverlayVisible
    /\ hasApiKey' = IF outcome = "throws" THEN hasApiKey ELSE TRUE
    /\ alerted' = IF outcome = "throws" THEN Some(ConnectFailedNotice) ELSE alerted
    /\ UNCHANGED <<prompt, generatedImages, checkingKey, wsVars, envVars, appendLog>>

\* A faulty handler: the text from chat is added to the buffer
HandlePromptFromChatAppends(newPrompt) ==
    /\ WorkspaceVisible
    /\ prompt' = prompt \o newPrompt
    /\ UNCHANGED <<generatedImages, hasApiKey, checkingKey, wsVars, envVars, appendLog, alerted>>

\* handlePromptFromChat
HandlePromptFromChat(newPrompt) ==
    /\ WorkspaceVisible
    /\ prompt' = newPrompt
    /\ UNCHANGED <<generatedImages, hasApiKey, checkingKey, wsVars, envVars, appendLog, alerted>>

\* Faulty updaters: the store is replaced, grows at the wrong end, or does not grow
ReplaceStore(image, prev) == <<image>>

AppendAtEnd(image, prev) == prev \o <<image>>

DropImage(image, prev) == prev

\* The updater handed to setGeneratedImages: prev => [image, ...prev]
handleImageGenerated(image, prev) == <<image>> \o prev

\* A faulty effect: it never selects
NeverSelect(images, selected) == selected

\* ImageWorkspace's effect on [generatedImages, selectedImage]: the value
\* selectedImage has once the effect has run
AutoSelect(images, selected) ==
    IF Len(images) > 0 /\ selected = Null THEN Some(images[1]) ELSE selected

\* handleImportImage, followed by the effect it triggers
HandleImportImage(base64) ==
    /\ WorkspaceVisible
    /\ LET importedImage == [id |-> DateNowToString,
                             url |-> base64,
                             prompt |-> <<"Imported from Chat">>,
                             aspectRatio |-> Square,
                             model |-> Flash,
                             source |-> "imported"]
       IN /\ generatedImages' = handleImageGenerated(importedImage, generatedImages)
          /\ appendLog' = Append(appendLog, importedImage)
    /\ selectedImage' = AutoSelect(generatedImages', selectedImage)
    /\ UNCHANGED <<prompt, hasApiKey, checkingKey, config, isGenerating, editMode,
                   editPrompt, analysis, envVars, alerted>>

----------------------------------------------------------------------------
(* src/components/ImageWorkspace.tsx: history *)

RECURSIVE FindIndexFrom(_, _, _)
FindIndexFrom(images, id, k) ==
    IF k > Len(images) THEN -1
    ELSE IF images[k].id = id THEN k - 1
    ELSE FindIndexFrom(images, id, k + 1)

\* Array.prototype.findIndex(img => img.id === id): 0-based, -1 when absent
FindIndex(images, id) == FindIndexFrom(images, id, 1)

IndexOf(images, selected) ==
    IF selected # Null THEN FindIndex(images, Get(selected).id) ELSE -1

currentIndex == IndexOf(generatedImages, selectedImage)

\* A faulty canUndo: off by one at the old end
CanUndoShort(images, selected) ==
    IndexOf(images, selected) # -1 /\ IndexOf(images, selected) < Len(images) - 2

CanUndo(images, selected) ==
    IndexOf(images, selected) # -1 /\ IndexOf(images, selected) < Len(images) - 1

CanRedo(images, selected) ==
    IndexOf(images, selected) # -1 /\ IndexOf(images, selected) > 0

canUndo == CanUndo(generatedImages, selectedImage)

canRedo == CanRedo(generatedImages, selectedImage)

\* generatedImages[i] for a 0-based i
At(images, i) == images[i + 1]

\* handleUndo's prevImage and handleRedo's nextImage
PrevImage(images, selected) == At(images, IndexOf(images, selected) + 1)

NextImage(images, selected) == At(images, IndexOf(images, selected) - 1)

\* The selection after k presses of the undo button, and of the redo button:
\* a press on a disabled button selects nothing
RECURSIVE PressUndo(_, _, _)
PressUndo(images, selected, k) ==
    IF k = 0 THEN selected
    ELSE IF CanUndo(images, selected)
         THEN PressUndo(images, Some(PrevImage(images, selected)), k - 1)
         ELSE PressUndo(images, selected, k - 1)

RECURSIVE PressRedo(_, _, _)
PressRedo(images, selected, k) ==
    IF k = 0 THEN selected
    ELSE IF CanRedo(images, selected)
         THEN PressRedo(images, Some(NextImage(images, selected)), k - 1)
         ELSE PressRedo(images, selected, k - 1)

\* Faulty moves: the prompt is left as typed, or is taken from the artifact
\* selected before the move
MoveToKeepPrompt(img) ==
    /\ selectedImage' = Some(img)
    /\ prompt' = prompt
    /\ editMode' = FALSE
    /\ analysis' = Null

MoveToStalePrompt(img) ==
    /\ selectedImage' = Some(img)
    /\ prompt' = Get(selectedImage).prompt
    /\ editMode' = FALSE
    /\ analysis' = Null

\* The four state updates shared by undo, redo and the thumbnails
MoveTo(img) ==
    /\ selectedImage' = Some(img)
    /\ prompt' = img.prompt
    /\ editMode' = FALSE
    /\ analysis' = Null

\* A faulty undo: the analysis and the edit mode are reset outside the test
handleUndoResetsAlways ==
    /\ WorkspaceVisible
    /\ IF canUndo
       THEN /\ MoveTo(PrevImage(generatedImages, selectedImage))
            /\ UNCHANGED <<generatedImages, hasApiKey, checkingKey, config, isGenerating,
                           editPrompt, envVars, appendLog, alerted>>
       ELSE /\ editMode' = FALSE
            /\ analysis' = Null
            /\ UNCHANGED <<appVars, config, isGenerating, selectedImage, editPrompt,
                           envVars, appendLog, alerted>>

handleUndo ==
    /\ WorkspaceVisible
    /\ IF canUndo
       THEN /\ MoveTo(PrevImage(generatedImages, selectedImage))
            /\ UNCHANGED <<generatedImages, hasApiKey, checkingKey, config, isGenerating,
                           editPrompt, envVars, appendLog, alerted>>
       ELSE UNCHANGED vars

handleRedo ==
    /\ WorkspaceVisible
    /\ IF canRedo
       THEN /\ MoveTo(NextImage(generatedImages, selectedImage))
            /\ UNCHANGED <<generatedImages, hasApiKey, checkingKey, config, isGenerating,
                           editPrompt, envVars, appendLog, alerted>>
       ELSE UNCHANGED vars

\* The viewer, with the overlay controls, the edit panel and the thumbnails
ViewerVisible == WorkspaceVisible /\ ~isGenerating /\ selectedImage # Null

\* onClick of the k-th thumbnail (1-based position in generatedImages)
ThumbnailClick(k) ==
    /\ ViewerVisible
    /\ k \in 1..Len(generatedImages)
    /\ MoveTo(generatedImages[k])
    /\ UNCHANGED <<generatedImages, hasApiKey, checkingKey, config, isGenerating,
                   editPrompt, envVars, appendLog, alerted>>

----------------------------------------------------------------------------
(* src/components/ImageWorkspace.tsx: prompt, settings and edit panel *)

\* textarea onChange
TypePrompt(text) ==
    /\ WorkspaceVisible
    /\ prompt' = text
    /\ UNCHANGED <<generatedImages, hasApiKey, checkingKey, wsVars, envVars, appendLog, alerted>>

SetModel(m) ==
    /\ WorkspaceVisible
    /\ config' = [config EXCEPT !.model = m]
    /\ UNCHANGED <<appVars, isGenerating, selectedImage, editMode, editPrompt, analysis,
                   envVars, appendLog, alerted>>

SetAspectRatio(a) ==
    /\ WorkspaceVisible
    /\ config' = [config EXCEPT !.aspectRatio = a]
    /\ UNCHANGED <<appVars, isGenerating, selectedImage, editMode, editPrompt, analysis,
                   envVars, appendLog, alerted>>

SetNegativePrompt(text) ==
    /\ WorkspaceVisible
    /\ config' = [config EXCEPT !.negativePrompt = text]
    /\ UNCHANGED <<appVars, isGenerating, selectedImage, editMode, editPrompt, analysis,
                   envVars, appendLog, alerted>>

\* The Magic Edit button
ToggleEditMode ==
    /\ ViewerVisible
    /\ editMode' = ~editMode
    /\ UNCHANGED <<appVars, config, isGenerating, selectedImage, editPrompt, analysis,
                   envVars, appendLog, alerted>>

\* The edit panel, with its input and the Apply button
EditPanelVisible == ViewerVisible /\ editMode

TypeEditPrompt(text) ==
    /\ EditPanelVisible
    /\ editPrompt' = text
    /\ UNCHANGED <<appVars, config, isGenerating, selectedImage, editMode, analysis,
                   envVars, appendLog, alerted>>

----------------------------------------------------------------------------
(* src/components/ImageWorkspace.tsx: the orchestrator *)

\* What a handler's closure holds while it awaits the collaborator: the
\* values of the render in which it was invoked, and what the service sent
Request(kind, sent) ==
    [kind |-> kind, prompt |-> prompt, config |-> config,
     selectedImage |-> selectedImage, editPrompt |-> editPrompt, sent |-> sent]

RemoveAt(seq, i) == SubSeq(seq, 1, i - 1) \o SubSeq(seq, i + 1, Len(seq))

GenerateFailedNotice == "Failed to generate image. Please try again."

RefineFailedNotice == "Failed to refine image."

\* A faulty test of the result: null passes it
AlwaysTruthy(result) == TRUE

\* if (base64), if (refinedBase64): the collaborator returned an image
Truthy(result) == result # Null

\* handleGenerate up to its await
handleGenerate ==
    /\ WorkspaceVisible
    /\ IF Trim(prompt) = <<>>
       THEN UNCHANGED vars
       ELSE /\ isGenerating' = TRUE
            /\ analysis' = Null
            /\ inflight' = Append(inflight,
                   Request("generate",
                           [text |-> FullPrompt(prompt, config.negativePrompt),
                            model |-> config.model,
                            aspectRatio |-> config.aspectRatio,
                            imageSize |-> ImageSize(config.model)]))
            /\ UNCHANGED <<appVars, config, selectedImage, editMode, editPrompt, now,
                           appendLog, alerted>>

\* A faulty handler: the artifact is built from the prompt and the settings
\* of the moment the call returns
GenerateReturnsLive(i, base64) ==
    /\ i \in 1..Len(inflight)
    /\ inflight[i].kind = "generate"
    /\ inflight' = RemoveAt(inflight, i)
    /\ isGenerating' = FALSE
    /\ LET newImage == [id |-> DateNowToString,
                        url |-> IF base64 # Null THEN Get(base64) ELSE "null",
                        prompt |-> prompt,
                        aspectRatio |-> config.aspectRatio,
                        model |-> config.model,
                        source |-> "undefined"]
       IN IF Truthy(base64)
          THEN /\ generatedImages' = handleImageGenerated(newImage, generatedImages)
               /\ appendLog' = Append(appendLog, newImage)
               /\ selectedImage' = AutoSelect(generatedImages', Some(newImage))
          ELSE UNCHANGED <<generatedImages, appendLog, selectedImage>>
    /\ UNCHANGED <<prompt, hasApiKey, checkingKey, config, editMode, editPrompt, analysis, now,
                   alerted>>

\* A faulty handler: no setSelectedImage, the selection is left to the effect
GenerateReturnsKeepsSelection(i, base64) ==
    /\ i \in 1..Len(inflight)
    /\ inflight[i].kind = "generate"
    /\ inflight' = RemoveAt(inflight, i)
    /\ isGenerating' = FALSE
    /\ LET req == inflight[i]
           newImage == [id |-> DateNowToString,
                        url |-> IF base64 # Null THEN Get(base64) ELSE "null",
                        prompt |-> req.prompt,
                        aspectRatio |-> req.config.aspectRatio,
                        model |-> req.config.model,
                        source |-> "undefined"]
       IN IF Truthy(base64)
          THEN /\ generatedImages' = handleImageGenerated(newImage, generatedImages)
               /\ appendLog' = Append(appendLog, newImage)
               /\ selectedImage' = AutoSelect(generatedImages', selectedImage)
          ELSE UNCHANGED <<generatedImages, appendLog, selectedImage>>
    /\ UNCHANGED <<prompt, hasApiKey, checkingKey, config, editMode, editPrompt, analysis, now,
                   alerted>>

\* handleGenerate from the await on: generateImage returned base64 (Null for null)
GenerateReturns(i, base64) ==
    /\ i \in 1..Len(inflight)
    /\ inflight[i].kind = "generate"
    /\ inflight' = RemoveAt(inflight, i)
    /\ isGenerating' = FALSE
    /\ LET req == inflight[i]
           newImage == [id |-> DateNowToString,
                        url |-> IF base64 # Null THEN Get(base64) ELSE "null",
                        prompt |-> req.prompt,
                        aspectRatio |-> req.config.aspectRatio,
                        model |-> req.config.model,
                        source |-> "undefined"]
       IN IF Truthy(base64)
          THEN /\ generatedImages' = handleImageGenerated(newImage, generatedImages)
               /\ appendLog' = Append(appendLog, newImage)
               /\ selectedImage' = AutoSelect(generatedImages', Some(newImage))
          ELSE UNCHANGED <<generatedImages, appendLog, selectedImage>>
    /\ UNCHANGED <<prompt, hasApiKey, checkingKey, config, editMode, editPrompt, analysis, now,
                   alerted>>

\* A faulty handler: no finally, the Busy flag stays set after an error
GenerateThrowsKeepsBusy(i) ==
    /\ i \in 1..Len(inflight)
    /\ inflight[i].kind = "generate"
    /\ alerted' = Some(GenerateFailedNotice)
    /\ inflight' = RemoveAt(inflight, i)
    /\ UNCHANGED <<appVars, wsVars, now, appendLog>>

\* handleGenerate from the await on: generateImage threw (catch, finally)
GenerateThrows(i) ==
    /\ i \in 1..Len(inflight)
    /\ inflight[i].kind = "generate"
    /\ alerted' = Some(GenerateFailedNotice)
    /\ isGenerating' = FALSE
    /\ inflight' = RemoveAt(inflight, i)
    /\ UNCHANGED <<appVars, config, selectedImage, editMode, editPrompt, analysis, now,
                   appendLog>>

\* handleRefine up to its await
handleRefine ==
    /\ WorkspaceVisible
    /\ IF selectedImage = Null \/ Trim(editPrompt) = <<>>
       THEN UNCHANGED vars
       ELSE /\ isGenerating' = TRUE
            /\ inflight' = Append(inflight,
                   Request("refine",
                           [image |-> Get(selectedImage).url,
                            text |-> editPrompt,
                            model |-> config.model]))
            /\ UNCHANGED <<appVars, config, selectedImage, editMode, editPrompt, analysis,
                           now, appendLog, alerted>>

\* Faulty handlers: the refinement takes the aspect ratio and the model of
\* the settings panel, or of the artifact selected when the call returns
RefineReturnsPanelSettings(i, refinedBase64) ==
    /\ i \in 1..Len(inflight)
    /\ inflight[i].kind = "refine"
    /\ inflight' = RemoveAt(inflight, i)
    /\ isGenerating' = FALSE
    /\ LET req == inflight[i]
           newImage == [id |-> DateNowToString,
                        url |-> IF refinedBase64 # Null THEN Get(refinedBase64) ELSE "null",
                        prompt |-> <<"Refined: ">> \o req.editPrompt,
                        aspectRatio |-> req.config.aspectRatio,
                        model |-> req.config.model,
                        source |-> "undefined"]
       IN IF Truthy(refinedBase64)
          THEN /\ generatedImages' = handleImageGenerated(newImage, generatedImages)
               /\ appendLog' = Append(appendLog, newImage)
               /\ selectedImage' = AutoSelect(generatedImages', Some(newImage))
               /\ editMode' = FALSE
               /\ editPrompt' = <<>>
          ELSE UNCHANGED <<generatedImages, appendLog, selectedImage, editMode, editPrompt>>
    /\ UNCHANGED <<prompt, hasApiKey, checkingKey, config, analysis, now, alerted>>

RefineReturnsLiveSelection(i, refinedBase64) ==
    /\ i \in 1..Len(inflight)
    /\ inflight[i].kind = "refine"
    /\ inflight' = RemoveAt(inflight, i)
    /\ isGenerating' = FALSE
    /\ LET req == inflight[i]
           newImage == [id |-> DateNowToString,
                        url |-> IF refinedBase64 # Null THEN Get(refinedBase64) ELSE "null",
                        prompt |-> <<"Refined: ">> \o req.editPrompt,
                        aspectRatio |-> Get(selectedImage).aspectRatio,
                        model |-> Get(selectedImage).model,
                        source |-> "undefined"]
       IN IF Truthy(refinedBase64)
          THEN /\ generatedImages' = handleImageGenerated(newImage, generatedImages)
               /\ appendLog' = Append(appendLog, newImage)
               /\ selectedImage' = AutoSelect(generatedImages', Some(newImage))
               /\ editMode' = FALSE
               /\ editPrompt' = <<>>
          ELSE UNCHANGED <<generatedImages, appendLog, selectedImage, editMode, editPrompt>>
    /\ UNCHANGED <<prompt, hasApiKey, checkingKey, config, analysis, now, alerted>>

\* handleRefine from the await on: refineImage returned refinedBase64 (Null for null)
RefineReturns(i, refinedBase64) ==
    /\ i \in 1..Len(inflight)
    /\ inflight[i].kind = "refine"
    /\ inflight' = RemoveAt(inflight, i)
    /\ isGenerating' = FALSE
    /\ LET req == inflight[i]
           newImage == [id |-> DateNowToString,
                        url |-> IF refinedBase64 # Null THEN Get(refinedBase64) ELSE "null",
                        prompt |-> <<"Refined: ">> \o req.editPrompt,
                        aspectRatio |-> Get(req.selectedImage).aspectRatio,
                        model |-> Get(req.selectedImage).model,
                        source |-> "undefined"]
       IN IF Truthy(refinedBase64)
          THEN /\ generatedImages' = handleImageGenerated(newImage, generatedImages)
               /\ appendLog' = Append(appendLog, newImage)
               /\ selectedImage' = AutoSelect(generatedImages', Some(newImage))
               /\ editMode' = FALSE
               /\ editPrompt' = <<>>
          ELSE UNCHANGED <<generatedImages, appendLog, selectedImage, editMode, editPrompt>>
    /\ UNCHANGED <<prompt, hasApiKey, checkingKey, config, analysis, now, alerted>>

\* handleRefine from the await on: refineImage threw (catch, finally)
RefineThrows(i) ==
    /\ i \in 1..Len(inflight)
    /\ inflight[i].kind = "refine"
    /\ alerted' = Some(RefineFailedNotice)
    /\ isGenerating' = FALSE
    /\ inflight' = RemoveAt(inflight, i)
    /\ UNCHANGED <<appVars, config, selectedImage, editMode, editPrompt, analysis, now,
                   appendLog>>

\* handleAnalyze up to its await
handleAnalyze ==
    /\ WorkspaceVisible
    /\ IF selectedImage = Null
       THEN UNCHANGED vars
       ELSE /\ isGenerating' = TRUE
            /\ inflight' = Append(inflight,
                   Request("analyze", [image |-> Get(selectedImage).url]))
            /\ UNCHANGED <<appVars, config, selectedImage, editMode, editPrompt, analysis,
                           now, appendLog, alerted>>

\* handleAnalyze from the await on: the provider call inside analyzeImage ended in outcome
AnalyzeReturns(i, outcome) ==
    /\ i \in 1..Len(inflight)
    /\ inflight[i].kind = "analyze"
    /\ analysis' = Some(AnalyzeImageResult(outcome))
    /\ isGenerating' = FALSE
    /\ inflight' = RemoveAt(inflight, i)
    /\ UNCHANGED <<appVars, config, selectedImage, editMode, editPrompt, now, appendLog, alerted>>

\* A faulty Generate button: it stays enabled while isLoading
ClickGenerateWhileLoading == handleGenerate

\* The Generate button is disabled while isLoading
ClickGenerate == ~isGenerating /\ handleGenerate

\* The Apply button is in the edit panel
ClickApply == EditPanelVisible /\ handleRefine

\* The Critique button is among the viewer's overlay controls
ClickCritique == ViewerVisible /\ handleAnalyze

----------------------------------------------------------------------------
(* The millisecond clock *)

Tick ==
    /\ now' = now + 1
    /\ UNCHANGED <<appVars, wsVars, inflight, appendLog, alerted>>

----------------------------------------------------------------------------
(* The session: every control of the user interface and every way a        *)
(* collaborator call can end, with inputs drawn from small sets            *)

PromptInputs == {<<"cat">>}

EditInputs == {<<"add hat">>}

\* The settings keep their initial values in this exploration
NegativeInputs == {<<>>}

ModelInputs == {Flash}

AspectInputs == {Square}

\* Attachments of chat messages
ImageInputs == {"data:image/png;base64,A"}

\* Images the collaborator returns
ResultInputs == {"data:image/png;base64,C"}

\* What the provider call inside analyzeImage ends in
AnalysisOutcomes == {[kind |-> "text", text |-> "moody, wide, a balanced composition"]}

\* Artifacts imported from chat so far
Imported == {k \in 1..Len(generatedImages) : generatedImages[k].source = "imported"}

\* Generate and refine requests in flight
Creating == {i \in 1..Len(inflight) : inflight[i].kind \in {"generate", "refine"}}

\* Artifacts created by generate and refine so far, with those still in flight
Creations == Len(generatedImages) - Cardinality(Imported) + Cardinality(Creating)

KeyGate ==
    \/ \E outcome \in {"absent", "true", "false", "throws"} : CheckKey(outcome)
    \/ \E outcome \in {"absent", "closed", "throws"} : HandleConnectApiKey(outcome)

PromptEdits ==
    \/ \E text \in PromptInputs : TypePrompt(text)
    \/ \E text \in PromptInputs : HandlePromptFromChat(text)

Settings ==
    \/ \E m \in ModelInputs : SetModel(m)
    \/ \E a \in AspectInputs : SetAspectRatio(a)
    \/ \E text \in NegativeInputs : SetNegativePrompt(text)

EditPanel ==
    \/ ToggleEditMode
    \/ \E text \in EditInputs : TypeEditPrompt(text)

Import == Cardinality(Imported) < MaxImports /\ \E base64 \in ImageInputs : HandleImportImage(base64)

Navigate ==
    \/ handleUndo
    \/ handleRedo
    \/ \E k \in 1..Len(generatedImages) : ThumbnailClick(k)

Dispatch ==
    \/ Creations < MaxCreations /\ ClickGenerate
    \/ Creations < MaxCreations /\ ClickApply
    \/ ClickCritique

Complete ==
    \E i \in 1..Len(inflight) :
        \/ \E base64 \in {Null} \cup {Some(u) : u \in ResultInputs} : GenerateReturns(i, base64)
        \/ GenerateThrows(i)
        \/ \E base64 \in {Null} \cup {Some(u) : u \in ResultInputs} : RefineReturns(i, base64)
        \/ RefineThrows(i)
        \/ \E outcome \in AnalysisOutcomes : AnalyzeReturns(i, outcome)

\* The clock's reading is the id of some artifact.  The readings matter only
\* as ids, so a reading that no artifact carries is interchangeable with the
\* one after it and the clock is let run on only from a reading in use
ReadingInUse == \E k \in 1..Len(generatedImages) : generatedImages[k].id = DateNowToString

Clock == now < MaxClock /\ ReadingInUse /\ Tick

\* While an alert dialog is open the page runs nothing
Unblocked == alerted = Null

Next ==
    \/ Unblocked /\ KeyGate
    \/ Unblocked /\ PromptEdits
    \/ Unblocked /\ Settings
    \/ Unblocked /\ EditPanel
    \/ Unblocked /\ Import
    \/ Unblocked /\ Navigate
    \/ Unblocked /\ Dispatch
    \/ Unblocked /\ Complete
    \/ DismissAlert
    \/ Clock

Spec == Init /\ [][Next]_vars

----------------------------------------------------------------------------
(* The orchestrator invoked directly: the three handlers are called in     *)
(* whatever state the workspace is in, whether or not a control that calls *)
(* them is rendered and enabled; the texts include whitespace-only ones    *)

BlankInputs == {<<" ">>}

PromptEditsWide == \E text \in PromptInputs \cup BlankInputs : TypePrompt(text)

EditPanelWide ==
    \/ ToggleEditMode
    \/ \E text \in EditInputs \cup BlankInputs : TypeEditPrompt(text)

ImportFew ==
    Cardinality(Imported) < DirectImports /\ \E base64 \in ImageInputs : HandleImportImage(base64)

DirectCalls ==
    /\ Len(inflight) < MaxInflight
    /\ \/ Creations < MaxCreations /\ handleGenerate
       \/ Creations < MaxCreations /\ handleRefine
       \/ handleAnalyze

NextDirect ==
    \/ Unblocked /\ KeyGate
    \/ Unblocked /\ PromptEditsWide
    \/ Unblocked /\ EditPanelWide
    \/ Unblocked /\ ImportFew
    \/ Unblocked /\ DirectCalls
    \/ Unblocked /\ Complete
    \/ DismissAlert

SpecDirect == Init /\ [][NextDirect]_vars

----------------------------------------------------------------------------
(* The session with the settings varied: the model and the aspect ratio    *)
(* are changed at any time, also while a request is in flight, and a       *)
(* generated artifact can be refined                                       *)

ModelInputsWide == {Flash, Pro}

AspectInputsWide == {Square, Wide}

SettingsWide ==
    \/ \E m \in ModelInputsWide : SetModel(m)
    \/ \E a \in AspectInputsWide : SetAspectRatio(a)
    \/ \E text \in NegativeInputs : SetNegativePrompt(text)

\* Artifacts in the store, with those a request in flight may still add
Artifacts == Len(generatedImages) + Cardinality(Creating)

ImportMore ==
    Artifacts < MaxArtifacts /\ \E base64 \in ImageInputs : HandleImportImage(base64)

DispatchMore ==
    \/ Artifacts < MaxArtifacts /\ ClickGenerate
    \/ Artifacts < MaxArtifacts /\ ClickApply

NextVariants ==
    \/ Unblocked /\ KeyGate
    \/ Unblocked /\ PromptEdits
    \/ Unblocked /\ SettingsWide
    \/ Unblocked /\ EditPanel
    \/ Unblocked /\ ImportMore
    \/ Unblocked /\ Navigate
    \/ Unblocked /\ DispatchMore
    \/ Unblocked /\ Complete
    \/ DismissAlert

SpecVariants == Init /\ [][NextVariants]_vars

----------------------------------------------------------------------------
(* The critique of imported artifacts: the provider call inside            *)
(* analyzeImage ends in a text, in an empty text or in an error            *)

AnalysisOutcomesWide ==
    AnalysisOutcomes \cup {[kind |-> "text", text |-> ""], [kind |-> "throws", text |-> ""]}

AnalyzeCompletes ==
    \E i \in 1..Len(inflight) :
        \E outcome \in AnalysisOutcomesWide : AnalyzeReturns(i, outcome)

NextCritique ==
    \/ Unblocked /\ KeyGate
    \/ Unblocked /\ PromptEdits
    \/ Unblocked /\ Import
    \/ Unblocked /\ Navigate
    \/ Unblocked /\ ClickCritique
    \/ Unblocked /\ AnalyzeCompletes
    \/ DismissAlert
    \/ Clock

SpecCritique == Init /\ [][NextCritique]_vars

----------------------------------------------------------------------------
(* Properties of the artifact store *)

InStore(img) == \E k \in 1..Len(generatedImages) : generatedImages[k] = img

Last(seq) == seq[Len(seq)]

\* C1: after N appends (generate, refine or import, in any order) the store
\* holds exactly N artifacts and the artifact at index 0 is the one appended
\* most recently.
C1_LengthAndNewestFirst ==
    /\ Len(generatedImages) = Len(appendLog)
    /\ appendLog # <<>> => generatedImages[1] = Last(appendLog)

\* Three appends of both kinds, the creation not being the oldest
C1_Witness ==
    /\ Len(appendLog) = 3
    /\ appendLog[1].source = "imported"
    /\ \E k \in 2..3 : appendLog[k].source # "imported"

\* A step that inserts exactly one artifact at index 0 and keeps the rest
InsertsAtFront ==
    /\ Len(generatedImages') = Len(generatedImages) + 1
    /\ Tail(generatedImages') = generatedImages

\* Steps of undo, redo, thumbnail selection, analyze and the prompt edits
NonAppendingStep ==
    \/ handleUndo
    \/ handleRedo
    \/ \E k \in 1..Len(generatedImages) : ThumbnailClick(k)
    \/ handleAnalyze
    \/ \E i \in 1..Len(inflight) : \E outcome \in AnalysisOutcomes : AnalyzeReturns(i, outcome)
    \/ PromptEdits

\* C2: the store is append-only: every step leaves it unchanged or inserts
\* exactly one artifact at index 0, no artifact in it is removed, reordered or
\* changed, and undo, redo, thumbnail selection, analyze and prompt edits
\* never change it.
C2_AppendOnly ==
    [][\/ generatedImages' = generatedImages
       \/ InsertsAtFront /\ ~NonAppendingStep]_vars

\* An artifact has been put on top of an older, different one, and the user
\* has navigated down to the older one
C2_Witness ==
    /\ Len(generatedImages) >= 2
    /\ generatedImages[1] # generatedImages[2]
    /\ selectedImage = Some(generatedImages[2])

\* C3: artifact ids are unique within the store, also when two artifacts are
\* created at the same clock reading.
C3_IdsUnique ==
    \A i, j \in 1..Len(generatedImages) :
        i # j => generatedImages[i].id # generatedImages[j].id

----------------------------------------------------------------------------
(* Properties of the cursor *)

\* C4: the cursor is none or refers to an artifact present in the store.
C4_CursorInStore == selectedImage = Null \/ InStore(Get(selectedImage))

\* The cursor is on an artifact below a newer one while a request is in flight
C4_Witness ==
    /\ selectedImage # Null
    /\ Len(generatedImages) >= 2
    /\ selectedImage # Some(generatedImages[1])
    /\ InStore(Get(selectedImage))
    /\ inflight # <<>>

\* C5: when the store goes from empty to non-empty while nothing is selected,
\* the cursor is set to the newest artifact; while the store has that single
\* artifact, canGoOlder and canGoNewer are both false.
C5_FirstArtifactSelected ==
    /\ [][(generatedImages = <<>> /\ selectedImage = Null /\ generatedImages' # <<>>)
            => /\ selectedImage' = Some(generatedImages'[1])
               /\ ~canUndo' /\ ~canRedo']_vars
    /\ [](Len(generatedImages) = 1
            => selectedImage = Some(generatedImages[1]) /\ ~canUndo /\ ~canRedo)

\* The first artifact came by import and is selected
C5_Witness ==
    /\ Len(generatedImages) = 1
    /\ generatedImages[1].source = "imported"
    /\ selectedImage = Some(generatedImages[1])

\* C6: after any append to the store, an import made while another artifact
\* is selected included, the cursor selects the newly appended artifact.
C6_SelectionFollowsLatest ==
    [][generatedImages' # generatedImages
         => selectedImage' = Some(generatedImages'[1])]_vars

\* C7: canGoOlder is true exactly when a selection exists and its index i is
\* not -1 and i < length-1; then goOlder selects the artifact at index i+1,
\* the cursor's index afterwards is i+1, and the store is unchanged.
C7_GoOlder ==
    [][/\ canUndo <=> /\ selectedImage # Null
                      /\ currentIndex # -1
                      /\ currentIndex < Len(generatedImages) - 1
       /\ (handleUndo /\ canUndo)
            => /\ selectedImage' = Some(At(generatedImages, currentIndex + 1))
               /\ currentIndex' = currentIndex + 1
               /\ generatedImages' = generatedImages]_vars

\* C8: canGoNewer is true exactly when a selection exists and its index i is
\* greater than 0; then goNewer selects the artifact at index i-1, the
\* cursor's index afterwards is i-1, and the store is unchanged.
C8_GoNewer ==
    [][/\ canRedo <=> (selectedImage # Null /\ currentIndex > 0)
       /\ (handleRedo /\ canRedo)
            => /\ selectedImage' = Some(At(generatedImages, currentIndex - 1))
               /\ currentIndex' = currentIndex - 1
               /\ generatedImages' = generatedImages]_vars

\* C9: whenever the store holds two or more artifacts, at least one of undo
\* and redo is enabled.
C9_SomeNavigationEnabled == Len(generatedImages) >= 2 => canUndo \/ canRedo

\* Two artifacts with one id, the cursor on the older: only findIndex's first
\* match keeps a direction open
C9_Witness ==
    /\ Len(generatedImages) >= 2
    /\ generatedImages[1].id = generatedImages[2].id
    /\ selectedImage = Some(generatedImages[2])
    /\ generatedImages[1] # generatedImages[2]

\* C10: where goOlder and the following goNewer are both legal, they leave
\* the cursor on the artifact id it started from; likewise goNewer followed
\* by goOlder.
C10_RoundTrip ==
    /\ (canUndo /\ CanRedo(generatedImages, Some(PrevImage(generatedImages, selectedImage))))
        => NextImage(generatedImages,
                     Some(PrevImage(generatedImages, selectedImage))).id
           = Get(selectedImage).id
    /\ (canRedo /\ CanUndo(generatedImages, Some(NextImage(generatedImages, selectedImage))))
        => PrevImage(generatedImages,
                     Some(NextImage(generatedImages, selectedImage))).id
           = Get(selectedImage).id

----------------------------------------------------------------------------
(* Properties of navigation and of the prompt buffer *)

\* C11: an undo invoked when canUndo is false, and a redo invoked when canRedo
\* is false, leave the selection, the prompt buffer, the analysis, the edit
\* mode and the store unchanged
C11_IllegalNavigationNoOp ==
    [][\/ UNCHANGED <<selectedImage, prompt, analysis, editMode, generatedImages>>
       \/ ~ \/ ~canUndo /\ handleUndo
            \/ ~canRedo /\ handleRedo]_vars

\* An undo can be invoked at the oldest artifact while an analysis is shown
\* and a prompt other than the artifact's has been typed
C11_Witness ==
    /\ WorkspaceVisible
    /\ alerted = Null
    /\ Len(generatedImages) >= 2
    /\ selectedImage # Null
    /\ ~canUndo
    /\ canRedo
    /\ analysis # Null
    /\ prompt # Get(selectedImage).prompt

\* A step of undo, redo or a thumbnail that moves the cursor
NavigationStep ==
    \/ handleUndo /\ canUndo
    \/ handleRedo /\ canRedo
    \/ \E k \in 1..Len(generatedImages) : ThumbnailClick(k)

\* C12: after a successful undo, redo or thumbnail selection the prompt buffer
\* equals the prompt of the newly selected artifact, whatever had been typed
C12_NavigationRestoresPrompt ==
    [][\/ selectedImage' # Null /\ prompt' = Get(selectedImage').prompt
       \/ ~NavigationStep]_vars

\* The cursor is on an artifact other than the newest, the buffer holds that
\* artifact's prompt, and that prompt is none the user types
C12_Witness ==
    /\ Len(generatedImages) >= 2
    /\ selectedImage # Null
    /\ selectedImage # Some(generatedImages[1])
    /\ prompt = Get(selectedImage).prompt
    /\ prompt \notin PromptInputs

\* A step that writes the prompt buffer and nothing else: typing in the
\* textarea, or a prompt accepted from chat
PromptEditStep ==
    UNCHANGED <<generatedImages, hasApiKey, checkingKey, wsVars, envVars, appendLog, alerted>>

\* C13 as stated: whenever the cursor moves to a different artifact, by any
\* cause, the prompt buffer is set to that artifact's prompt in the same
\* step; and the buffer is written only on such a movement or by typing
C13_PromptFollowsEveryMove ==
    [][/\ (selectedImage' # selectedImage /\ selectedImage' # Null)
            => prompt' = Get(selectedImage').prompt
       /\ \/ prompt' = prompt
          \/ selectedImage' # selectedImage
          \/ PromptEditStep]_vars

\* C13 amended: an undo, a redo or a thumbnail selection sets the prompt
\* buffer to the selected artifact's prompt in the same step; every other
\* step that is not an edit of the buffer itself (the auto-select after an
\* import, the selection on generate or refine success among them) leaves
\* the buffer as it was
C13_PromptFollowsNavigationOnly ==
    [][/\ \/ selectedImage' # Null /\ prompt' = Get(selectedImage').prompt
          \/ ~NavigationStep
       /\ \/ prompt' = prompt
          \/ PromptEditStep
          \/ NavigationStep]_vars

\* A refinement has been selected on its success while the buffer still
\* holds the prompt that navigation put there
C13_Witness ==
    /\ selectedImage # Null
    /\ Head(Get(selectedImage).prompt) = "Refined: "
    /\ selectedImage = Some(generatedImages[1])
    /\ prompt = <<"Imported from Chat">>

\* C14: accepting a prompt from chat overwrites the prompt buffer with the
\* given text in every state of the workspace (no selection or some, Idle or
\* Busy) and changes nothing else: store, cursor, Busy flag, analysis and the
\* requests in flight, with the prompt each captured at dispatch, stay
C14_ChatPromptOverwritesOnly ==
    /\ [](WorkspaceVisible /\ Unblocked
            => \A text \in PromptInputs : ENABLED HandlePromptFromChat(text))
    /\ [][\A text \in PromptInputs :
            HandlePromptFromChat(text) =>
                /\ prompt' = text
                /\ UNCHANGED <<generatedImages, selectedImage, isGenerating, analysis,
                               inflight>>]_vars

\* A generate request is in flight and the buffer holds a text from chat
\* that differs from the prompt the request captured
C14_Witness ==
    /\ isGenerating
    /\ Len(inflight) = 1
    /\ inflight[1].kind = "generate"
    /\ prompt \in PromptInputs
    /\ inflight[1].prompt # prompt
    /\ selectedImage # Null

----------------------------------------------------------------------------
(* Properties of the orchestrator *)

\* C15: in every state reachable through the user controls at most one
\* generate, refine or analyze request is in flight, and one is in flight
\* exactly when the Busy flag is set
C15_SingleFlight ==
    /\ Len(inflight) \in {0, 1}
    /\ isGenerating <=> Len(inflight) = 1

\* A refine request is in flight, dispatched from the edit panel
C15_Witness ==
    /\ isGenerating
    /\ Len(inflight) = 1
    /\ inflight[1].kind = "refine"
    /\ Len(generatedImages) >= 2

\* C16: the orchestrator itself rejects a request while Busy: generate,
\* refine or analyze invoked while the Busy flag is set is a no-op, with no
\* second collaborator call, no artifact, and the Busy flag and the first
\* request untouched
C16_BusyRejects ==
    [][(isGenerating /\ (handleGenerate \/ handleRefine \/ handleAnalyze))
       => UNCHANGED <<inflight, isGenerating, generatedImages, selectedImage, analysis>>]_vars

\* Empty after trimming: nothing but whitespace
IsBlank(t) == \A k \in 1..Len(t) : IsSpace(t[k])

\* What a handler's validation must have let through
ValidRequest(req) ==
    /\ req.kind = "generate" => ~IsBlank(req.prompt)
    /\ req.kind = "refine" => req.selectedImage # Null /\ ~IsBlank(req.editPrompt)
    /\ req.kind = "analyze" => req.selectedImage # Null

\* A handler invoked on input its validation rejects
RejectedCall ==
    \/ handleGenerate /\ IsBlank(prompt)
    \/ handleRefine /\ (selectedImage = Null \/ IsBlank(editPrompt))
    \/ handleAnalyze /\ selectedImage = Null

\* C18: validation rejects before dispatch: generate with a prompt empty
\* after trimming, refine with no selection or an instruction empty after
\* trimming, and analyze with no selection never invoke the collaborator and
\* leave the Busy flag, the store, the cursor and the analysis unchanged
C18_ValidationRejects ==
    /\ [](\A i \in 1..Len(inflight) : ValidRequest(inflight[i]))
    /\ [][RejectedCall
            => UNCHANGED <<inflight, isGenerating, generatedImages, selectedImage,
                           analysis>>]_vars

\* Generate can be invoked on a whitespace-only prompt, and refine on a
\* whitespace-only instruction with an artifact selected
C18_Witness ==
    /\ WorkspaceVisible
    /\ Unblocked
    /\ prompt # <<>>
    /\ IsBlank(prompt)
    /\ selectedImage # Null
    /\ editPrompt # <<>>
    /\ IsBlank(editPrompt)
    /\ inflight = <<>>

\* C17: the Busy flag is always released: the step in which a collaborator
\* call ends, in success, in no image or in an error, leaves the orchestrator
\* Idle, and in no reachable state is the flag set with no request in flight
C17_BusyReleased ==
    /\ [](isGenerating => inflight # <<>>)
    /\ [][Len(inflight') < Len(inflight) => ~isGenerating']_vars

\* A generate request has just ended in an error and the orchestrator is Idle
C17_Witness ==
    /\ alerted = Some(GenerateFailedNotice)
    /\ ~isGenerating
    /\ inflight = <<>>

\* A generate or refine request ends in failure: the collaborator throws or
\* returns null
FailedCompletion ==
    \E i \in 1..Len(inflight) :
        \/ GenerateThrows(i)
        \/ GenerateReturns(i, Null)
        \/ RefineThrows(i)
        \/ RefineReturns(i, Null)

\* C19: a failed generate or refine appends nothing: the store after the
\* completion equals the store before, the cursor is not moved, and the
\* session is Idle again
C19_FailureAppendsNothing ==
    [][FailedCompletion =>
          /\ UNCHANGED <<generatedImages, selectedImage>>
          /\ ~isGenerating']_vars

\* A refine request has just failed: the store holds what it held, the
\* cursor is on the artifact that was to be refined
C19_Witness ==
    /\ alerted = Some(RefineFailedNotice)
    /\ ~isGenerating
    /\ selectedImage # Null
    /\ InStore(Get(selectedImage))
    /\ Len(generatedImages) = Len(appendLog)
    /\ \A k \in 1..Len(generatedImages) : Head(generatedImages[k].prompt) # "Refined: "

\* C20: every failed generate or refine surfaces a user-visible failure
\* notice, when the collaborator throws and when it returns null
C20_FailureNotice ==
    [][FailedCompletion => alerted' # Null]_vars

----------------------------------------------------------------------------
(* Properties of the artifacts a request creates *)

\* The call of request i returns an image
GenerateSucceeds(i) == \E u \in ResultInputs : GenerateReturns(i, Some(u))

RefineSucceeds(i) == \E u \in ResultInputs : RefineReturns(i, Some(u))

\* C21: a successful generate appends exactly one artifact whose prompt is
\* the prompt submitted at dispatch and whose aspectRatio and model are the
\* settings in effect at dispatch, whatever the prompt buffer and the
\* settings have become while Busy; it selects that artifact and returns to
\* Idle
C21_GenerateSuccess ==
    [][\A i \in 1..Len(inflight) :
          GenerateSucceeds(i) =>
              /\ Len(generatedImages') = Len(generatedImages) + 1
              /\ Tail(generatedImages') = generatedImages
              /\ generatedImages'[1].prompt = inflight[i].prompt
              /\ generatedImages'[1].aspectRatio = inflight[i].config.aspectRatio
              /\ generatedImages'[1].model = inflight[i].config.model
              /\ selectedImage' = Some(generatedImages'[1])
              /\ ~isGenerating']_vars

\* A generated artifact is selected at the front of the store, made with
\* settings that are not the defaults and are no longer those of the panel
C21_Witness ==
    /\ ~isGenerating
    /\ generatedImages # <<>>
    /\ selectedImage = Some(generatedImages[1])
    /\ generatedImages[1].source = "undefined"
    /\ generatedImages[1].prompt \in PromptInputs
    /\ generatedImages[1].model = Pro
    /\ generatedImages[1].aspectRatio = Wide
    /\ config.model = Flash
    /\ config.aspectRatio = Square

\* C22: a successful refine with instruction X on base artifact B appends
\* exactly one artifact whose prompt is "Refined: X" and whose aspectRatio
\* and model are those of B, not those of the settings panel, for every
\* combination of the two; the new artifact is then selected
C22_RefineSuccess ==
    [][\A i \in 1..Len(inflight) :
          RefineSucceeds(i) =>
              /\ Len(generatedImages') = Len(generatedImages) + 1
              /\ Tail(generatedImages') = generatedImages
              /\ generatedImages'[1].prompt = <<"Refined: ">> \o inflight[i].editPrompt
              /\ generatedImages'[1].aspectRatio = Get(inflight[i].selectedImage).aspectRatio
              /\ generatedImages'[1].model = Get(inflight[i].selectedImage).model
              /\ selectedImage' = Some(generatedImages'[1])]_vars

\* The refinement of a Pro, 16:9 artifact is selected at the front of the
\* store while the panel shows Flash and 1:1
C22_Witness ==
    /\ Len(generatedImages) >= 2
    /\ selectedImage = Some(generatedImages[1])
    /\ generatedImages[1].prompt = <<"Refined: ", "add hat">>
    /\ generatedImages[1].model = Pro
    /\ generatedImages[1].aspectRatio = Wide
    /\ generatedImages[2].model = Pro
    /\ generatedImages[2].aspectRatio = Wide
    /\ config.model = Flash
    /\ config.aspectRatio = Square

\* Apply is pressed and handleRefine dispatches a request
RefineDispatched ==
    /\ ClickApply
    /\ Len(inflight') = Len(inflight) + 1

\* C29: a refine request is bound to the artifact selected at dispatch: the
\* content sent to the collaborator is that artifact's, and the resulting
\* artifact inherits that artifact's aspectRatio and model, also when undo
\* or redo has changed the selection before the request completes
C29_RefineBoundAtDispatch ==
    /\ [][RefineDispatched =>
              /\ Last(inflight').selectedImage = selectedImage
              /\ Last(inflight').sent.image = Get(selectedImage).url]_vars
    /\ [][\A i \in 1..Len(inflight) :
              (RefineSucceeds(i) /\ selectedImage # inflight[i].selectedImage) =>
                  /\ generatedImages'[1].aspectRatio
                         = Get(inflight[i].selectedImage).aspectRatio
                  /\ generatedImages'[1].model = Get(inflight[i].selectedImage).model]_vars

\* A refine request for a Pro, 16:9 artifact is in flight and the selection
\* has moved to a Flash, 1:1 artifact
C29_Witness ==
    /\ Len(inflight) = 1
    /\ inflight[1].kind = "refine"
    /\ selectedImage # Null
    /\ selectedImage # inflight[1].selectedImage
    /\ Get(inflight[1].selectedImage).model = Pro
    /\ Get(inflight[1].selectedImage).aspectRatio = Wide
    /\ Get(selectedImage).model = Flash
    /\ Get(selectedImage).aspectRatio = Square

\* C23: every artifact in the store records the origin of the operation that
\* created it: generated for generate, refined for refine, imported for an
\* import from chat
C23_OriginRecorded ==
    [][/\ \A i \in 1..Len(inflight) :
              GenerateSucceeds(i) => generatedImages'[1].source = "generated"
       /\ \A i \in 1..Len(inflight) :
              RefineSucceeds(i) => generatedImages'[1].source = "refined"
       /\ \A base64 \in ImageInputs :
              HandleImportImage(base64) => generatedImages'[1].source = "imported"]_vars

----------------------------------------------------------------------------
(* Properties of the analysis *)

\* C24: analyze never changes the store or the cursor, on success or on a
\* provider failure; on a provider failure the capability does not throw but
\* yields a fixed fallback text, which becomes the analysis result, and the
\* orchestrator returns to Idle
C24_AnalyzeFrame ==
    /\ [][handleAnalyze => UNCHANGED <<generatedImages, selectedImage>>]_vars
    /\ [][\A i \in 1..Len(inflight) : \A outcome \in AnalysisOutcomesWide :
              AnalyzeReturns(i, outcome) =>
                  /\ UNCHANGED <<generatedImages, selectedImage, alerted>>
                  /\ ~isGenerating'
                  /\ analysis' # Null
                  /\ outcome.kind = "throws" => analysis' = Some(AnalysisErrorFallback)]_vars

\* The provider has failed on an analyze request: the fallback text is the
\* analysis of the selected artifact and the orchestrator is Idle
C24_Witness ==
    /\ analysis = Some(AnalysisErrorFallback)
    /\ ~isGenerating
    /\ inflight = <<>>
    /\ selectedImage # Null
    /\ InStore(Get(selectedImage))

\* C25: the analysis result is ephemeral: it is cleared whenever the
\* selection changes (undo, redo, a thumbnail, the selection made on generate
\* or refine success) and whenever a new analyze, generate or refine cycle
\* starts
C25_AnalysisEphemeral ==
    [][(\/ selectedImage' # selectedImage
        \/ Len(inflight') > Len(inflight))
       => analysis' = Null]_vars

----------------------------------------------------------------------------
(* Properties of the key gate *)

\* C26: the workspace, and so the orchestrator, is reachable only once
\* hasSelectedApiKey has reported true: a key check that throws and a key
\* selection dialog that is closed, with no key reported, leave the
\* workspace unrendered, and no request is dispatched without the workspace
C26_GateBlocks ==
    /\ [](inflight # <<>> => hasApiKey)
    /\ [][(CheckKey("throws") \/ HandleConnectApiKey("closed"))
            => ~WorkspaceVisible']_vars

\* C27: a displayed analysis always belongs to the artifact on display: an
\* analysis is set only by a request whose subject is the selected artifact,
\* also when undo or redo has been pressed while the request was in flight,
\* and while it stays set the selection stays
C27_AnalysisOfSelected ==
    /\ [][\A i \in 1..Len(inflight) : \A outcome \in AnalysisOutcomes :
              AnalyzeReturns(i, outcome) => selectedImage' = inflight[i].selectedImage]_vars
    /\ [][(analysis # Null /\ analysis' = analysis) => selectedImage' = selectedImage]_vars

----------------------------------------------------------------------------
(* Properties of a completion after the user has acted during the flight *)

\* C28: when a generate or refine request completes successfully the new
\* artifact is at index 0 of the store and is the selected artifact,
\* whatever was done while the request was in flight (undo, redo, imports
\* from chat, prompt edits); the store as it stood at the completion, with
\* the artifacts imported during the flight, lies directly below it
C28_CompletionOnTop ==
    [][\A i \in 1..Len(inflight) :
          (GenerateSucceeds(i) \/ RefineSucceeds(i)) =>
              /\ generatedImages' # <<>>
              /\ generatedImages' = <<Last(appendLog')>> \o generatedImages
              /\ selectedImage' = Some(generatedImages'[1])
              /\ Get(selectedImage').source # "imported"]_vars

\* A created artifact is selected on top of two imported ones, the cursor
\* having been on the older import and the buffer holding another prompt
C28_Witness ==
    /\ ~isGenerating
    /\ Len(generatedImages) = 3
    /\ selectedImage = Some(generatedImages[1])
    /\ generatedImages[1].source = "undefined"
    /\ generatedImages[2].source = "imported"
    /\ generatedImages[3].source = "imported"
    /\ generatedImages[1].id = generatedImages[2].id
    /\ prompt # generatedImages[1].prompt

\* C30: every artifact is reachable by navigation: with the selection at
\* index i of a store of length n, n-1-i presses of undo reach the oldest
\* artifact (index n-1) and leave undo disabled, i presses of redo reach
\* index 0, and each successful press moves the cursor's index by exactly one
C30_NavigationReachesEnds ==
    selectedImage # Null =>
        LET n == Len(generatedImages)
            i == currentIndex
            UndoIndex(k) == IndexOf(generatedImages, PressUndo(generatedImages, selectedImage, k))
            RedoIndex(k) == IndexOf(generatedImages, PressRedo(generatedImages, selectedImage, k))
        IN /\ i \in 0..(n - 1)
           /\ \A k \in 0..(n - 1 - i) : UndoIndex(k) = i + k
           /\ ~CanUndo(generatedImages, PressUndo(generatedImages, selectedImage, n - 1 - i))
           /\ \A k \in 0..i : RedoIndex(k) = i - k

====
